---- MODULE Spec2Model ----
(***************************************************************************)
(* Order lifecycle, payment reconciliation, wallet ledger and stock of the *)
(* canteen project (apps/orders, apps/payments, apps/menu,                 *)
(* apps/authentication).                                                   *)
(*                                                                         *)
(* Reading conventions.                                                    *)
(*  - The database runs in autocommit mode (no ATOMIC_REQUESTS); a view    *)
(*    first loads model instances and later saves them, so every handler   *)
(*    that reads and then writes is split in a "load" step and a "write"   *)
(*    step, and the write step uses the values loaded earlier.  The body   *)
(*    of a transaction.atomic() block commits in one step.                 *)
(*  - The views were written against other field names than the models    *)
(*    declare (employee/customer, payment_type/transaction_type,           *)
(*    price/unit_price, Order.STATUS_PENDING/'pending', the columns of     *)
(*    PaymentWebhook, the balance columns process_topup leaves out).  A    *)
(*    handler is read as its code intends: the names are aliases and a     *)
(*    create() stores the row with the values it is given.                 *)
(*  - payments/views.py defines process_topup twice.  The later,           *)
(*    simulated one (the same as in orders/views.py) is what the URL       *)
(*    reaches and is modelled as process_topup.  The earlier, mobile-money *)
(*    one is the only creator of the top-up Payments that the webhooks and *)
(*    the status poll complete; it is modelled as ProcessTopup so that     *)
(*    those handlers have Payments to act on.                              *)
(*  - Money is counted in whole units; timestamps are modelled by whether  *)
(*    they are set.                                                        *)
(***************************************************************************)
EXTENDS Integers, Sequences, FiniteSets, TLC

\* ---------------------------------------------------------------- bounds
MaxOrders == 1
MaxPayments == 2
MaxTx == 2
MaxReq == 2
MaxQty == 2
MaxTopup == 1
MaxItems == 3
MaxPrice == 2
MaxStock == 2
MaxRetry == 3
MaxHistory == 3
MaxLines == 2
MaxBalance == 4
MaxQueue == 3
MaxDayOrders == 9
\* Order numbers are written in this radix, so that the largest three-digit
\* number is reached within MaxDayOrders orders (the code writes them in
\* radix 10, where it is 999).
Radix == 2

\* ------------------------------------------------------------- universes
Users == {"u1"}
MenuItems == {"m1", "m2"}
MenuSeq == <<"m1", "m2">>
Req == 1..MaxReq
InitialBalance == 2

OrderStatuses ==
  {"pending", "validated", "confirmed", "preparing", "ready", "completed", "cancelled"}
PaymentMethods == {"wallet", "mtn_momo", "orange_money", "cash"}
ProviderStatuses == {"SUCCESSFUL", "SUCCESS", "FAILED", "EXPIRED", "PENDING"}

VARIABLES
  wallet_balance,       \* User.wallet_balance, per user
  wallet_transactions,  \* WalletTransaction rows, oldest first
  orders,               \* Order rows; the index is the order's id
  order_items,          \* OrderItem rows; the index is the item's id
  order_history,        \* OrderHistory rows, oldest first
  payments,             \* Payment rows; the index is the payment's id
  menu,                 \* MenuItem rows
  order_queue,          \* OrderQueue rows, in the order of their creation
  order_numbers,        \* Order.order_number of the day's Order rows (the digits
                        \* after "ORD<date>"); followed for Order.save alone
  req                   \* requests in flight: position and loaded instances

vars == <<wallet_balance, wallet_transactions, orders, order_items,
          order_history, payments, menu, order_queue, order_numbers, req>>

\* --------------------------------------------------------------- helpers
RECURSIVE SumSeq(_)
SumSeq(s) == IF s = <<>> THEN 0 ELSE Head(s) + SumSeq(Tail(s))

RECURSIVE MapItems(_, _)
MapItems(s, o) ==
  IF s = <<>> THEN <<>>
  ELSE (IF Head(s).order = o THEN <<Head(s).quantity * Head(s).unit_price>> ELSE <<>>)
       \o MapItems(Tail(s), o)

NoOrder ==
  [customer |-> "none", status |-> "none", subtotal |-> 0, tax_amount |-> 0,
   discount_amount |-> 0, total_amount |-> 0,
   validated_at |-> FALSE, confirmed_at |-> FALSE, prepared_at |-> FALSE,
   ready_at |-> FALSE, completed_at |-> FALSE, cancelled_at |-> FALSE]

NoPayment ==
  [user |-> "none", order |-> 0, payment_method |-> "none", payment_type |-> "none",
   amount |-> 0, status |-> "none", transaction_id |-> 0, retry_count |-> 0,
   failure_reason |-> "none"]

IdleReq ==
  [pc |-> "idle", user |-> "none", balance |-> 0, order |-> 0, order_rec |-> NoOrder,
   method |-> "none", payment |-> 0, payment_rec |-> NoPayment, status |-> "none",
   item |-> "none", stock |-> 0, quantity |-> 0, result |-> "none",
   lines |-> <<>>, created_any |-> FALSE, order_number |-> <<>>,
   queue_position |-> 0]

\* ------------------------------------------------------------ menu / item
\* MenuItem.get_display_price: the special price while the special offer is
\* active ("special_price or price"), the regular price otherwise.
get_display_price(m) ==
  IF m.is_special_active
  THEN (IF m.special_price # 0 THEN m.special_price ELSE m.price)
  ELSE m.price

\* OrderItem.save on the instance it: "if not self.unit_price" reads the menu
\* item's display price, then total_price = quantity * unit_price.
OrderItem_save(it) ==
  LET up == IF it.unit_price = 0 THEN get_display_price(menu[it.menu_item])
            ELSE it.unit_price
  IN [it EXCEPT !.unit_price = up, !.total_price = it.quantity * up]

\* Order.calculate_totals on the instance o with the item rows items:
\* subtotal = Sum(quantity * unit_price), tax 0, total = subtotal - discount.
calculate_totals(o, id, items) ==
  LET items_total == SumSeq(MapItems(items, id))
  IN [o EXCEPT !.subtotal = items_total, !.tax_amount = 0,
               !.total_amount = items_total - o.discount_amount]

\* ------------------------------------------------------------------ Init
Init ==
  /\ wallet_balance = [u \in Users |-> InitialBalance]
  /\ wallet_transactions = <<>>
  /\ orders = <<>>
  /\ order_items = <<>>
  /\ order_history = <<>>
  /\ payments = <<>>
  /\ menu = [m \in MenuItems |->
               [price |-> IF m = "m1" THEN 1 ELSE 2, special_price |-> 0,
                is_special_active |-> FALSE, current_stock |-> MaxStock]]
  /\ order_queue = <<>>
  /\ order_numbers = <<>>
  /\ req = [r \in Req |-> IdleReq]

\* ------------------------------------------------------- order placement
\* The OrderItem rows place_order creates for the posted quantities, in menu
\* order; lines with quantity <= 0 are skipped.
RECURSIVE NewItems(_, _, _)
NewItems(ms, lines, o) ==
  IF ms = <<>> THEN <<>>
  ELSE (IF lines[Head(ms)] > 0
        THEN <<OrderItem_save([order |-> o, menu_item |-> Head(ms),
                               quantity |-> lines[Head(ms)],
                               unit_price |-> menu[Head(ms)].price,
                               total_price |-> 0])>>
        ELSE <<>>)
       \o NewItems(Tail(ms), lines, o)

\* place_order / process_order_from_cart: save the order skeleton in status
\* pending, create one OrderItem per posted line (each OrderItem.save
\* recomputes the order's totals), then write the "order placed" history row.
\* When no line has a positive quantity the skeleton is deleted again and
\* nothing remains, so that case is no step of the model.
PlaceOrder(u, lines) ==
  LET o == Len(orders) + 1
      items == NewItems(MenuSeq, lines, o)
      all_items == order_items \o items
      skeleton == [NoOrder EXCEPT !.customer = u, !.status = "pending"]
  IN /\ Len(orders) < MaxOrders
     /\ items # <<>>
     /\ Len(all_items) <= MaxItems
     /\ order_items' = all_items
     /\ orders' = Append(orders, calculate_totals(skeleton, o, all_items))
     /\ order_history' = Append(order_history,
                                [order |-> o, status_from |-> "", status_to |-> "pending"])
     /\ UNCHANGED <<wallet_balance, wallet_transactions, payments, menu, req, order_queue,
                 order_numbers>>

\* ------------------------------------------------------ order state machine
\* validate_order: get_object_or_404(status=pending), then status validated,
\* validated_at stamped, one history row.
ValidateOrder(o) ==
  /\ o \in 1..Len(orders)
  /\ Len(order_history) < MaxHistory
  /\ orders[o].status = "pending"
  /\ orders' = [orders EXCEPT ![o].status = "validated", ![o].validated_at = TRUE]
  /\ order_history' = Append(order_history,
                             [order |-> o, status_from |-> "pending", status_to |-> "validated"])
  /\ UNCHANGED <<wallet_balance, wallet_transactions, order_items, payments, menu, req, order_queue,
                 order_numbers>>

\* cancel_order: get_object_or_404(status=pending), then status cancelled,
\* cancelled_at stamped, one history row.
CancelOrder(o) ==
  /\ o \in 1..Len(orders)
  /\ Len(order_history) < MaxHistory
  /\ orders[o].status = "pending"
  /\ orders' = [orders EXCEPT ![o].status = "cancelled", ![o].cancelled_at = TRUE]
  /\ order_history' = Append(order_history,
                             [order |-> o, status_from |-> "pending", status_to |-> "cancelled"])
  /\ UNCHANGED <<wallet_balance, wallet_transactions, order_items, payments, menu, req, order_queue,
                 order_numbers>>

\* Order.update_status on the instance ord: the new status is assigned
\* without any check; the timestamp is stamped only on the listed
\* (old, new) pairs, cancelled_at on every move to cancelled.
update_status(ord, new_status) ==
  LET old_status == ord.status
      o1 == [ord EXCEPT !.status = new_status]
  IN IF new_status = "confirmed" /\ old_status = "pending"
       THEN [o1 EXCEPT !.confirmed_at = TRUE]
     ELSE IF new_status = "preparing" /\ old_status = "confirmed"
       THEN [o1 EXCEPT !.prepared_at = TRUE]
     ELSE IF new_status = "ready" /\ old_status = "preparing"
       THEN [o1 EXCEPT !.ready_at = TRUE]
     ELSE IF new_status = "completed" /\ old_status = "ready"
       THEN [o1 EXCEPT !.completed_at = TRUE]
     ELSE IF new_status = "cancelled"
       THEN [o1 EXCEPT !.cancelled_at = TRUE]
     ELSE o1

\* A caller of Order.update_status with a status of its choice (the kitchen
\* workflow): the order is loaded, update_status saves it.
UpdateStatus(o, new_status) ==
  /\ o \in 1..Len(orders)
  /\ new_status \in OrderStatuses
  /\ new_status # orders[o].status
  /\ orders' = [orders EXCEPT ![o] = update_status(orders[o], new_status)]
  /\ UNCHANGED <<wallet_balance, wallet_transactions, order_items, order_history,
                 payments, menu, req, order_queue,
                 order_numbers>>

\* ----------------------------------------------------------------- wallet
\* has_sufficient_balance that accepts every amount.
has_sufficient_balance_always(balance, amount) == TRUE

\* User.has_sufficient_balance on a loaded user instance.
has_sufficient_balance(balance, amount) == balance >= amount

\* deduct_from_wallet that saves the balance it loaded.
deduct_from_wallet_keeps(balance, amount) == balance

\* User.deduct_from_wallet on a loaded user instance: the new balance, or
\* the old one when the check fails.
deduct_from_wallet(balance, amount) ==
  IF balance >= amount THEN balance - amount ELSE balance

\* add_to_wallet with the sign of deduct_from_wallet.
add_to_wallet_subtracts(balance, amount) == balance - amount

\* User.add_to_wallet on a loaded user instance: the new balance.
add_to_wallet(balance, amount) == balance + amount

\* ------------------------------------------------------ Payment.mark_as_*
mark_as_processing(p) == [p EXCEPT !.status = "processing"]

mark_as_completed(p) == [p EXCEPT !.status = "completed"]

mark_as_failed(p, reason) ==
  [p EXCEPT !.status = "failed", !.retry_count = p.retry_count + 1,
            !.failure_reason = reason]

\* Payment.can_retry
can_retry(p) == p.status = "failed" /\ p.retry_count < 3

\* A new request takes the lowest free slot (the slots are interchangeable).
FreeReq(r) == req[r].pc = "idle" /\ \A r2 \in Req : r2 < r => req[r2].pc # "idle"

\* Requests of process_payment that passed the checks and have not yet
\* committed their Payment row.
PayingReqs == {r \in Req : req[r].pc = "pay"}

\* order.payments.filter(status__in=['pending', 'completed']).exists()
payment_exists(o) ==
  \E p \in 1..Len(payments) :
    payments[p].order = o /\ payments[p].status \in {"pending", "completed"}

\* -------------------------------------------------------- process_payment
\* process_payment up to the atomic block: request.user and the order are
\* loaded; an order that is not pending, or that has a pending or completed
\* Payment, is answered with an error and nothing changes.
ProcessPaymentBegin(r, u, o, method) ==
  /\ FreeReq(r)
  /\ o \in 1..Len(orders)
  /\ orders[o].customer = u
  /\ Len(payments) + Cardinality(PayingReqs) < MaxPayments
  /\ orders[o].status = "pending"
  /\ ~payment_exists(o)
  /\ req' = [req EXCEPT ![r] = [IdleReq EXCEPT !.pc = "pay", !.user = u,
                                  !.balance = wallet_balance[u], !.order = o,
                                  !.order_rec = orders[o], !.method = method]]
  /\ UNCHANGED <<wallet_balance, wallet_transactions, orders, order_items,
                 order_history, payments, menu, order_queue,
                 order_numbers>>

\* process_wallet_payment on the new Payment row p of request r: the values
\* written by the atomic block, from the user instance loaded by the request.
process_wallet_payment(r, p, pid) ==
  LET q == req[r]
      amount == p.amount
      new_balance == deduct_from_wallet(q.balance, amount)
  IN IF ~has_sufficient_balance(q.balance, amount)
     THEN [success |-> FALSE, payment |-> mark_as_failed(p, "Insufficient wallet balance"),
           balance |-> wallet_balance[q.user], txs |-> <<>>]
     ELSE [success |-> TRUE, payment |-> mark_as_completed(p),
           balance |-> new_balance,
           txs |-> <<[user |-> q.user, transaction_type |-> "debit",
                      source |-> "order_payment", amount |-> amount,
                      balance_before |-> q.balance, balance_after |-> new_balance,
                      payment |-> pid, order |-> q.order]>>]

\* process_mtn_payment / process_orange_payment on the new Payment row p:
\* mark_as_processing, request-to-pay; accepted stores the transaction id,
\* anything else (error status, exception, timeout) marks the Payment failed.
process_mobile_payment(p, pid, resp) ==
  IF resp = "accepted"
  THEN [success |-> TRUE,
        payment |-> [mark_as_processing(p) EXCEPT !.transaction_id = pid]]
  ELSE [success |-> FALSE,
        payment |-> mark_as_failed(mark_as_processing(p), resp)]

\* process_mtn_payment / process_orange_payment up to the provider's answer:
\* the request-to-pay with the new reference has been sent and accepted (202);
\* the Payment row and its transaction id are written in the still open
\* atomic block, so no other request sees them yet.
ProcessPaymentSend(r) ==
  /\ req[r].pc = "pay"
  /\ req[r].method \in {"mtn_momo", "orange_money"}
  /\ req' = [req EXCEPT ![r].pc = "sent", ![r].payment = Len(payments) + 1]
  /\ UNCHANGED <<wallet_balance, wallet_transactions, orders, order_items,
                 order_history, payments, menu, order_queue,
                 order_numbers>>

\* The atomic block of process_payment: create the Payment, dispatch on the
\* method, and on success Order.update_status('confirmed') on the order
\* instance loaded before the block.  An invalid method returns from inside
\* the block, which commits the pending Payment.
ProcessPaymentCommit(r, resp) ==
  LET q == req[r]
      pid == Len(payments) + 1
      p == [NoPayment EXCEPT !.user = q.user, !.order = q.order,
                             !.payment_method = q.method,
                             !.payment_type = "order_payment",
                             !.amount = q.order_rec.total_amount,
                             !.status = "pending"]
      w == process_wallet_payment(r, p, pid)
      m == process_mobile_payment(p, pid, resp)
  IN /\ q.pc = "pay" \/ (q.pc = "sent" /\ resp = "accepted")
     /\ req' = [req EXCEPT ![r] = IdleReq]
     /\ UNCHANGED <<order_items, order_history, menu, order_queue,
                 order_numbers>>
     /\ IF q.method = "wallet"
        THEN /\ resp = "none"
             /\ Len(wallet_transactions) + Len(w.txs) <= MaxTx
             /\ payments' = Append(payments, w.payment)
             /\ wallet_transactions' = wallet_transactions \o w.txs
             /\ wallet_balance' = [wallet_balance EXCEPT ![q.user] = w.balance]
             /\ orders' = IF w.success
                          THEN [orders EXCEPT ![q.order] = update_status(q.order_rec, "confirmed")]
                          ELSE orders
        ELSE IF q.method \in {"mtn_momo", "orange_money"}
        THEN /\ resp \in {"accepted", "rejected", "timeout"}
             /\ payments' = Append(payments, m.payment)
             /\ orders' = IF m.success
                          THEN [orders EXCEPT ![q.order] = update_status(q.order_rec, "confirmed")]
                          ELSE orders
             /\ UNCHANGED <<wallet_balance, wallet_transactions>>
        ELSE /\ resp = "none"
             /\ payments' = Append(payments, p)
             /\ UNCHANGED <<wallet_balance, wallet_transactions, orders>>

\* process_payment by wallet when WalletTransaction.objects.create raises a
\* database error after the debit: inside the atomic block the failed
\* statement marks the transaction for rollback, mark_as_failed in the except
\* branch of process_wallet_payment can no longer write and raises, and the
\* block is left by that exception: Payment, debit and order are rolled back
\* and the outer except answers 500.
ProcessPaymentLedgerFails(r) ==
  LET q == req[r]
  IN /\ q.pc = "pay"
     /\ q.method = "wallet"
     /\ has_sufficient_balance(q.balance, q.order_rec.total_amount)
     /\ req' = [req EXCEPT ![r].pc = "pay_done", ![r].result = "ledger_failed"]
     /\ UNCHANGED <<wallet_balance, wallet_transactions, orders, order_items,
                    order_history, payments, menu, order_queue,
                 order_numbers>>

\* process_payment when the payment succeeded and Notification.objects.create
\* raises in Order.update_status -> create_status_notification: nothing
\* catches it inside the atomic block, so the block is rolled back (Payment,
\* debit, ledger row, order status) and the outer except answers 500.
ProcessPaymentNotificationFails(r) ==
  LET q == req[r]
  IN /\ \/ /\ q.pc = "pay"
           /\ q.method = "wallet"
           /\ has_sufficient_balance(q.balance, q.order_rec.total_amount)
        \/ /\ q.pc \in {"pay", "sent"}
           /\ q.method \in {"mtn_momo", "orange_money"}
     /\ req' = [req EXCEPT ![r].pc = "pay_done", ![r].result = "notification_failed"]
     /\ UNCHANGED <<wallet_balance, wallet_transactions, orders, order_items,
                    order_history, payments, menu, order_queue,
                 order_numbers>>

\* process_payment has answered 500.
ProcessPaymentReturn(r) ==
  /\ req[r].pc = "pay_done"
  /\ req' = [req EXCEPT ![r] = IdleReq]
  /\ UNCHANGED <<wallet_balance, wallet_transactions, orders, order_items,
                 order_history, payments, menu, order_queue,
                 order_numbers>>

\* ---------------------------------------------------------- process_topup
\* process_topup (mobile money): inside one atomic block a top-up Payment is
\* created and sent to the provider like an order payment; the wallet is
\* credited later, by the webhook or the status poll.
ProcessTopup(u, amount, method, resp) ==
  LET pid == Len(payments) + 1
      p == [NoPayment EXCEPT !.user = u, !.payment_method = method,
                             !.payment_type = "topup", !.amount = amount,
                             !.status = "pending"]
  IN /\ amount \in 1..MaxTopup
     /\ method \in {"mtn_momo", "orange_money"}
     /\ resp \in {"accepted", "rejected", "timeout"}
     /\ Len(payments) + Cardinality(PayingReqs) < MaxPayments
     /\ payments' = Append(payments, process_mobile_payment(p, pid, resp).payment)
     /\ UNCHANGED <<wallet_balance, wallet_transactions, orders, order_items,
                    order_history, menu, req, order_queue,
                 order_numbers>>

\* process_topup (simulated): a credit WalletTransaction of the posted
\* amount is created for the user; the wallet balance is not touched and the
\* row's balance columns are not given.
process_topup(u, amount) ==
  /\ amount \in 1..MaxTopup
  /\ Len(wallet_transactions) < MaxTx
  /\ wallet_transactions' =
       Append(wallet_transactions,
              [user |-> u, transaction_type |-> "credit", source |-> "none",
               amount |-> amount, balance_before |-> 0, balance_after |-> 0,
               payment |-> 0, order |-> 0])
  /\ UNCHANGED <<wallet_balance, orders, order_items, order_history, payments,
                 menu, req, order_queue,
                 order_numbers>>

\* -------------------------------------------------- webhooks, status poll
\* What a provider status means to each handler: mtn_webhook and
\* verify_mtn_payment complete on SUCCESSFUL and fail on FAILED; orange_webhook
\* and verify_orange_payment complete on SUCCESS and fail on FAILED or EXPIRED;
\* every other status is ignored.
provider_outcome(provider, status) ==
  IF provider = "mtn"
  THEN (IF status = "SUCCESSFUL" THEN "complete"
        ELSE IF status = "FAILED" THEN "fail" ELSE "ignore")
  ELSE (IF status = "SUCCESS" THEN "complete"
        ELSE IF status \in {"FAILED", "EXPIRED"} THEN "fail" ELSE "ignore")

\* Payment.objects.get(transaction_id=ref): the ids of the matching rows.
payments_by_transaction_id(ref) ==
  {p \in 1..Len(payments) : payments[p].transaction_id = ref}

\* The first half of mtn_webhook / orange_webhook: the Payment with the
\* posted reference is loaded (and its user).  A missing reference, an
\* unknown reference and an ignored status are acknowledged without change.
WebhookLoad(r, provider, ref, status) ==
  /\ FreeReq(r)
  /\ ref # 0
  /\ provider_outcome(provider, status) # "ignore"
  /\ \E p \in payments_by_transaction_id(ref) :
       req' = [req EXCEPT ![r] = [IdleReq EXCEPT !.pc = "apply", !.payment = p,
                                    !.payment_rec = payments[p],
                                    !.user = payments[p].user,
                                    !.balance = wallet_balance[payments[p].user],
                                    !.status = provider_outcome(provider, status)]]
  /\ UNCHANGED <<wallet_balance, wallet_transactions, orders, order_items,
                 order_history, payments, menu, order_queue,
                 order_numbers>>

\* The webhooks' answer to Payment.DoesNotExist, after logging a warning.
unknown_reference_error == "Error"

unknown_reference_response == "OK"

\* mtn_webhook / orange_webhook with a reference that no Payment row has:
\* the warning is logged and the delivery acknowledged.
WebhookUnknown(r, provider, ref, status) ==
  /\ FreeReq(r)
  /\ ref # 0
  /\ provider \in {"mtn", "orange"}
  /\ provider_outcome(provider, status) # "ignore"
  /\ payments_by_transaction_id(ref) = {}
  /\ req' = [req EXCEPT ![r] = [IdleReq EXCEPT !.pc = "webhook_done", !.payment = ref,
                                  !.method = provider,
                                  !.status = provider_outcome(provider, status),
                                  !.result = unknown_reference_response]]
  /\ UNCHANGED <<wallet_balance, wallet_transactions, orders, order_items,
                 order_history, payments, menu, order_queue,
                 order_numbers>>

\* The webhook's response has been sent.
WebhookReturn(r) ==
  /\ req[r].pc = "webhook_done"
  /\ req' = [req EXCEPT ![r] = IdleReq]
  /\ UNCHANGED <<wallet_balance, wallet_transactions, orders, order_items,
                 order_history, payments, menu, order_queue,
                 order_numbers>>

mtn_webhook(r, ref, status) == WebhookLoad(r, "mtn", ref, status)

orange_webhook(r, ref, status) == WebhookLoad(r, "orange", ref, status)

\* payment_verification: only a Payment in processing with a mobile-money
\* method is polled; the Payment is loaded, then the provider is asked.
payment_verification(r, p, status) ==
  LET provider == IF payments[p].payment_method = "mtn_momo" THEN "mtn" ELSE "orange"
  IN /\ FreeReq(r)
     /\ p \in 1..Len(payments)
     /\ payments[p].status = "processing"
     /\ payments[p].payment_method \in {"mtn_momo", "orange_money"}
     /\ provider_outcome(provider, status) # "ignore"
     /\ req' = [req EXCEPT ![r] = [IdleReq EXCEPT !.pc = "apply", !.payment = p,
                                     !.payment_rec = payments[p],
                                     !.user = payments[p].user,
                                     !.balance = wallet_balance[payments[p].user],
                                     !.status = provider_outcome(provider, status)]]
     /\ UNCHANGED <<wallet_balance, wallet_transactions, orders, order_items,
                    order_history, payments, menu, order_queue,
                 order_numbers>>

\* complete_wallet_topup on the loaded Payment and user of request r: the
\* balance written by add_to_wallet and the credit row.
complete_wallet_topup(r) ==
  LET q == req[r]
      new_balance == add_to_wallet(q.balance, q.payment_rec.amount)
  IN [balance |-> new_balance,
      tx |-> [user |-> q.user, transaction_type |-> "credit", source |-> "topup",
              amount |-> q.payment_rec.amount, balance_before |-> q.balance,
              balance_after |-> new_balance, payment |-> q.payment, order |-> 0]]

\* The second half of the webhooks and of verify_*_payment: on success a
\* top-up credits the wallet, then mark_as_completed; on failure
\* mark_as_failed.  The status the Payment has by now is not looked at.
ApplyProviderStatus(r) ==
  LET q == req[r]
      c == complete_wallet_topup(r)
  IN /\ q.pc = "apply"
     /\ req' = [req EXCEPT ![r] = IdleReq]
     /\ UNCHANGED <<orders, order_items, order_history, menu, order_queue,
                 order_numbers>>
     /\ IF q.status = "complete"
        THEN /\ payments' = [payments EXCEPT ![q.payment] = mark_as_completed(q.payment_rec)]
             /\ IF q.payment_rec.payment_type = "topup"
                THEN /\ Len(wallet_transactions) < MaxTx
                     /\ wallet_balance' = [wallet_balance EXCEPT ![q.user] = c.balance]
                     /\ wallet_transactions' = Append(wallet_transactions, c.tx)
                ELSE UNCHANGED <<wallet_balance, wallet_transactions>>
        ELSE /\ q.payment_rec.retry_count < MaxRetry
             /\ payments' = [payments EXCEPT ![q.payment] =
                               mark_as_failed(q.payment_rec, "Payment failed by provider")]
             /\ UNCHANGED <<wallet_balance, wallet_transactions>>

\* The webhooks and verify_*_payment on a successful top-up when
\* WalletTransaction.objects.create raises in complete_wallet_topup: these
\* handlers open no transaction, so the balance saved by add_to_wallet is
\* already committed; the exception is re-raised, mark_as_completed is not
\* reached, and the handler's except answers.
CompleteTopupLedgerFails(r) ==
  LET q == req[r]
      c == complete_wallet_topup(r)
  IN /\ q.pc = "apply"
     /\ q.status = "complete"
     /\ q.payment_rec.payment_type = "topup"
     /\ c.balance <= MaxBalance
     /\ wallet_balance' = [wallet_balance EXCEPT ![q.user] = c.balance]
     /\ req' = [req EXCEPT ![r] = IdleReq]
     /\ UNCHANGED <<wallet_transactions, orders, order_items, order_history,
                    payments, menu, order_queue,
                 order_numbers>>

\* refund_payment (api_views): the Payment with the given transaction_id, if
\* completed, is set to refunded and saved.  Nothing else is written.
refund_payment(ref) ==
  LET matches == payments_by_transaction_id(ref)
      p == CHOOSE x \in matches : TRUE
  IN /\ Cardinality(matches) = 1
     /\ payments[p].status = "completed"
     /\ payments' = [payments EXCEPT ![p].status = "refunded"]
     /\ UNCHANGED <<wallet_balance, wallet_transactions, orders, order_items,
                    order_history, menu, req, order_queue,
                 order_numbers>>

\* ------------------------------------- order placement, statement by statement
\* The ids a client can post: the menu items and an id no MenuItem row has.
PostedIds == MenuItems \cup {"gone"}

\* The posted lines of one placement: distinct item ids with a positive
\* quantity (the loop skips the others), in the order the loop visits them.
PostedLines ==
  LET recs == [item : PostedIds, quantity : 1..MaxQty]
      seqs == UNION {[1..n -> recs] : n \in 0..MaxLines}
  IN {l \in seqs : \A i, j \in 1..Len(l) : i # j => l[i].item # l[j].item}

\* The lines that the placements in progress have still to create.
LinesInProgress ==
  SumSeq([r \in Req |-> IF req[r].pc = "items" THEN Len(req[r].lines) ELSE 0])

\* place_order / process_order_from_cart, first statements: the order
\* skeleton is saved in status pending (autocommit: the row is visible at
\* once).  view names the handler.
PlaceOrderBegin(r, view, u, lines) ==
  LET o == Len(orders) + 1
      skeleton == [NoOrder EXCEPT !.customer = u, !.status = "pending"]
  IN /\ FreeReq(r)
     /\ view \in {"place_order", "process_order_from_cart"}
     /\ lines \in PostedLines
     /\ Len(orders) < MaxOrders
     /\ Len(order_items) + LinesInProgress + Len(lines) <= MaxItems
     /\ orders' = Append(orders, skeleton)
     /\ req' = [req EXCEPT ![r] = [IdleReq EXCEPT !.pc = "items", !.user = u,
                                     !.method = view, !.order = o,
                                     !.order_rec = skeleton, !.lines = lines]]
     /\ UNCHANGED <<wallet_balance, wallet_transactions, order_items, order_history,
                    payments, menu, order_queue,
                 order_numbers>>

\* One pass of the loop over the posted lines.  A MenuItem that does not
\* exist ends place_order with Http404 (get_object_or_404) and is skipped by
\* process_order_from_cart (except MenuItem.DoesNotExist: continue).
\* Otherwise OrderItem.objects.create stores the item, and OrderItem.save
\* recomputes subtotal, tax_amount and total_amount on the request's order
\* instance and saves these three columns.  Neither is_available nor
\* current_stock is read, and no stock is written.
PlaceOrderLine(r) ==
  LET q == req[r]
      line == Head(q.lines)
      o == q.order
      it == OrderItem_save([order |-> o, menu_item |-> line.item,
                            quantity |-> line.quantity,
                            unit_price |-> menu[line.item].price, total_price |-> 0])
      items == Append(order_items, it)
      inst == calculate_totals(q.order_rec, o, items)
  IN /\ q.pc = "items"
     /\ q.lines # <<>>
     /\ IF line.item \notin MenuItems
        THEN /\ req' = IF q.method = "place_order"
                       THEN [req EXCEPT ![r].pc = "place_done", ![r].result = "not_found",
                                        ![r].item = line.item]
                       ELSE [req EXCEPT ![r].lines = Tail(q.lines)]
             /\ UNCHANGED <<orders, order_items>>
        ELSE /\ order_items' = items
             /\ orders' = [orders EXCEPT ![o].subtotal = inst.subtotal,
                                         ![o].tax_amount = inst.tax_amount,
                                         ![o].total_amount = inst.total_amount]
             /\ req' = [req EXCEPT ![r].lines = Tail(q.lines), ![r].order_rec = inst,
                                   ![r].created_any = TRUE]
     /\ UNCHANGED <<wallet_balance, wallet_transactions, order_history, payments, menu, order_queue,
                 order_numbers>>

\* Keep the rows of s that do not belong to order o (on_delete=CASCADE).
RECURSIVE WithoutOrder(_, _)
WithoutOrder(s, o) ==
  IF s = <<>> THEN <<>>
  ELSE (IF Head(s).order = o THEN <<>> ELSE <<Head(s)>>) \o WithoutOrder(Tail(s), o)

\* After the loop: without any created item order.delete() removes the row
\* (and the history rows that point to it); otherwise calculate_totals and
\* the "order placed" history row, whose status_to is the status of the
\* request's order instance.
PlaceOrderFinish(r) ==
  LET q == req[r]
      o == q.order
      inst == calculate_totals(q.order_rec, o, order_items)
  IN /\ q.pc = "items"
     /\ q.lines = <<>>
     /\ IF ~q.created_any
        THEN /\ orders' = [orders EXCEPT ![o] = NoOrder]
             /\ order_history' = WithoutOrder(order_history, o)
             /\ req' = [req EXCEPT ![r].pc = "place_done", ![r].result = "no_items"]
        ELSE /\ orders' = [orders EXCEPT ![o].subtotal = inst.subtotal,
                                         ![o].tax_amount = inst.tax_amount,
                                         ![o].total_amount = inst.total_amount]
             /\ order_history' = Append(order_history,
                                        [order |-> o, status_from |-> "",
                                         status_to |-> q.order_rec.status])
             /\ req' = [req EXCEPT ![r].pc = "place_done", ![r].result = "ok"]
     /\ UNCHANGED <<wallet_balance, wallet_transactions, order_items, payments, menu, order_queue,
                 order_numbers>>

\* The response of the placement has been sent.
PlaceOrderReturn(r) ==
  /\ req[r].pc = "place_done"
  /\ req' = [req EXCEPT ![r] = IdleReq]
  /\ UNCHANGED <<wallet_balance, wallet_transactions, orders, order_items,
                 order_history, payments, menu, order_queue,
                 order_numbers>>

\* ---------------------------------------------------------------- cart
\* The pending orders of user u (Order.objects.get_or_create(employee=u,
\* status="pending")).
PendingOrdersOf(u) ==
  {o \in 1..Len(orders) : orders[o].customer = u /\ orders[o].status = "pending"}

\* add_to_cart: the user's pending order is fetched or created, one unit of
\* the menu item is added with order.items.create (OrderItem.save recomputes
\* the totals on this same order instance), then the view adds the price to
\* subtotal and total_amount and saves the order.  More than one pending
\* order makes get_or_create raise; nothing changes then.
add_to_cart(u, m) ==
  LET existing == PendingOrdersOf(u)
      created == existing = {}
      o == IF created THEN Len(orders) + 1 ELSE CHOOSE x \in existing : TRUE
      ord == IF created THEN [NoOrder EXCEPT !.customer = u, !.status = "pending"]
             ELSE orders[o]
      it == OrderItem_save([order |-> o, menu_item |-> m, quantity |-> 1,
                            unit_price |-> menu[m].price, total_price |-> 0])
      items == Append(order_items, it)
      recomputed == calculate_totals(ord, o, items)
      saved == [recomputed EXCEPT !.subtotal = recomputed.subtotal + menu[m].price,
                                  !.total_amount = recomputed.total_amount + menu[m].price]
  IN /\ Cardinality(existing) <= 1
     /\ created => Len(orders) < MaxOrders
     /\ Len(order_items) < MaxItems
     /\ order_items' = items
     /\ orders' = IF created THEN Append(orders, saved) ELSE [orders EXCEPT ![o] = saved]
     /\ UNCHANGED <<wallet_balance, wallet_transactions, order_history, payments, menu, req, order_queue,
                 order_numbers>>

\* quick_order: an order is created with subtotal and total set to the item's
\* price, then one unit of the item is attached (OrderItem.save recomputes
\* the totals).
quick_order(u, m) ==
  LET o == Len(orders) + 1
      ord == [NoOrder EXCEPT !.customer = u, !.status = "pending",
                             !.subtotal = menu[m].price, !.total_amount = menu[m].price]
      it == OrderItem_save([order |-> o, menu_item |-> m, quantity |-> 1,
                            unit_price |-> menu[m].price, total_price |-> 0])
      items == Append(order_items, it)
  IN /\ Len(orders) < MaxOrders
     /\ Len(order_items) < MaxItems
     /\ order_items' = items
     /\ orders' = Append(orders, calculate_totals(ord, o, items))
     /\ UNCHANGED <<wallet_balance, wallet_transactions, order_history, payments, menu, req, order_queue,
                 order_numbers>>

\* OrderItem.save on an existing row i, followed by the order's
\* calculate_totals (which saves subtotal, tax_amount and total_amount).
OrderItemResave(i) ==
  LET it == OrderItem_save(order_items[i])
      items == [order_items EXCEPT ![i] = it]
      o == it.order
  IN /\ i \in 1..Len(order_items)
     /\ order_items' = items
     /\ orders' = [orders EXCEPT ![o] = calculate_totals(orders[o], o, items)]
     /\ UNCHANGED <<wallet_balance, wallet_transactions, order_history, payments, menu, req, order_queue,
                 order_numbers>>

\* update_menu_item: the posted price is stored without validation.
update_menu_item(m, price) ==
  /\ price \in 0..MaxPrice
  /\ price # menu[m].price
  /\ menu' = [menu EXCEPT ![m].price = price]
  /\ UNCHANGED <<wallet_balance, wallet_transactions, orders, order_items,
                 order_history, payments, req, order_queue, order_numbers>>

\* ---------------------------------------------------------------- stock
\* A caller of MenuItem.update_stock loads the menu item.
ReserveLoad(r, m, quantity) ==
  /\ FreeReq(r)
  /\ quantity \in 1..MaxQty
  /\ req' = [req EXCEPT ![r] = [IdleReq EXCEPT !.pc = "reserve", !.item = m,
                                  !.stock = menu[m].current_stock,
                                  !.quantity = quantity]]
  /\ UNCHANGED <<wallet_balance, wallet_transactions, orders, order_items,
                 order_history, payments, menu, order_queue,
                 order_numbers>>

\* MenuItem.update_stock on the loaded instance: when the loaded stock covers
\* the quantity, the decremented value is saved and True returned, else False.
update_stock(r) ==
  LET q == req[r]
      ok == q.stock >= q.quantity
  IN /\ q.pc = "reserve"
     /\ menu' = IF ok THEN [menu EXCEPT ![q.item].current_stock = q.stock - q.quantity]
                ELSE menu
     /\ req' = [req EXCEPT ![r].pc = "reserved",
                           ![r].result = IF ok THEN "ok" ELSE "refused"]
     /\ UNCHANGED <<wallet_balance, wallet_transactions, orders, order_items,
                    order_history, payments, order_queue, order_numbers>>

\* The caller of MenuItem.update_stock has used the returned value.
ReserveReturn(r) ==
  /\ req[r].pc = "reserved"
  /\ req' = [req EXCEPT ![r] = IdleReq]
  /\ UNCHANGED <<wallet_balance, wallet_transactions, orders, order_items,
                 order_history, payments, menu, order_queue,
                 order_numbers>>

\* ------------------------------------------------------------ order queue
\* OrderQueue.objects.create: queue_position is what the caller passes; the
\* field's default is 0 and no code of the application computes a position.
queue_position_default == 0

OrderQueueCreate(position) ==
  /\ Len(order_queue) < MaxQueue
  /\ position \in {queue_position_default, Len(order_queue) + 1}
  /\ order_queue' = Append(order_queue, [queue_position |-> position])
  /\ UNCHANGED <<wallet_balance, wallet_transactions, orders, order_items,
                 order_history, payments, menu, order_numbers, req>>

\* OrderQueue.objects.filter(queue_position=position).first(): the rows are
\* equal in priority here, so the oldest row at that position; 0 when none.
queue_first(position) ==
  LET matches == {i \in 1..Len(order_queue) : order_queue[i].queue_position = position}
  IN IF matches = {} THEN 0
     ELSE CHOOSE i \in matches : \A j \in matches : i <= j

\* A caller of move_up or move_down loads the queue entry e.
OrderQueueLoad(r, e) ==
  /\ FreeReq(r)
  /\ e \in 1..Len(order_queue)
  /\ req' = [req EXCEPT ![r] = [IdleReq EXCEPT !.pc = "queue", !.order = e,
                                  !.queue_position = order_queue[e].queue_position]]
  /\ UNCHANGED <<wallet_balance, wallet_transactions, orders, order_items,
                 order_history, payments, menu, order_queue, order_numbers>>

\* OrderQueue.move_up on the loaded entry: above position 1 and with a row
\* at the position before, that row is moved one down and saved, then the
\* entry is saved one position up from the position it was loaded with.
move_up(r) ==
  LET self == req[r]
      previous_item == queue_first(self.queue_position - 1)
  IN /\ self.pc = "queue"
     /\ order_queue' =
          IF self.queue_position > 1 /\ previous_item # 0
          THEN [[order_queue EXCEPT ![previous_item].queue_position = @ + 1]
                  EXCEPT ![self.order].queue_position = self.queue_position - 1]
          ELSE order_queue
     /\ req' = [req EXCEPT ![r] = IdleReq]
     /\ UNCHANGED <<wallet_balance, wallet_transactions, orders, order_items,
                    order_history, payments, menu, order_numbers>>

\* OrderQueue.move_down on the loaded entry: with a row at the position
\* after, that row is moved one up and saved, then the entry is saved one
\* position down from the position it was loaded with.
move_down(r) ==
  LET self == req[r]
      next_item == queue_first(self.queue_position + 1)
  IN /\ self.pc = "queue"
     /\ order_queue' =
          IF next_item # 0
          THEN [[order_queue EXCEPT ![next_item].queue_position = @ - 1]
                  EXCEPT ![self.order].queue_position = self.queue_position + 1]
          ELSE order_queue
     /\ req' = [req EXCEPT ![r] = IdleReq]
     /\ UNCHANGED <<wallet_balance, wallet_transactions, orders, order_items,
                    order_history, payments, menu, order_numbers>>

\* ----------------------------------------------------------- order number
\* The digits of a number, most significant first.
RECURSIVE Digits(_)
Digits(n) == IF n < Radix THEN <<n>> ELSE Append(Digits(n \div Radix), n % Radix)

\* f"{new_number:03d}": at least three digits, padded with zeros on the left.
format_03d(n) ==
  LET d == Digits(n)
  IN IF Len(d) >= 3 THEN d ELSE [i \in 1..(3 - Len(d)) |-> 0] \o d

\* int(order_number[-3:]): the number written by the last three digits.
last_number(number) ==
  LET n == Len(number)
  IN number[n - 2] * Radix * Radix + number[n - 1] * Radix + number[n]

\* The order of two order numbers as strings: the first differing digit
\* decides, and a prefix comes before its extensions.
RECURSIVE StringLess(_, _)
StringLess(a, b) ==
  IF b = <<>> THEN FALSE
  ELSE IF a = <<>> THEN TRUE
  ELSE IF Head(a) # Head(b) THEN Head(a) < Head(b)
  ELSE StringLess(Tail(a), Tail(b))

\* Order.generate_order_number: one more than the last three digits of the
\* day's order number that sorts last as a string, or 1 on an empty day.
generate_order_number ==
  LET rows == {order_numbers[i] : i \in 1..Len(order_numbers)}
      last_order == CHOOSE x \in rows : \A y \in rows : y = x \/ StringLess(y, x)
  IN IF rows = {} THEN format_03d(1)
     ELSE format_03d(last_number(last_order) + 1)

\* Order.save of a new order, first half: order_number is empty, so the
\* number is generated from the rows committed so far.
OrderSaveGenerate(r) ==
  /\ FreeReq(r)
  /\ Len(order_numbers) + Cardinality({r2 \in Req : req[r2].pc = "number"}) < MaxDayOrders
  /\ req' = [req EXCEPT ![r] = [IdleReq EXCEPT !.pc = "number",
                                  !.order_number = generate_order_number]]
  /\ UNCHANGED <<wallet_balance, wallet_transactions, orders, order_items,
                 order_history, payments, menu, order_queue, order_numbers>>

\* Order.save, second half: the INSERT.  order_number is unique=True, so a
\* number that a committed row already has is refused with IntegrityError
\* and the order is not stored.
OrderSaveInsert(r) ==
  LET q == req[r]
      taken == \E i \in 1..Len(order_numbers) : order_numbers[i] = q.order_number
  IN /\ q.pc = "number"
     /\ order_numbers' = IF taken THEN order_numbers
                         ELSE Append(order_numbers, q.order_number)
     /\ req' = [req EXCEPT ![r].pc = "saved",
                           ![r].result = IF taken THEN "IntegrityError" ELSE "ok"]
     /\ UNCHANGED <<wallet_balance, wallet_transactions, orders, order_items,
                    order_history, payments, menu, order_queue>>

\* The caller of Order.save goes on.
OrderSaveReturn(r) ==
  /\ req[r].pc = "saved"
  /\ req' = [req EXCEPT ![r] = IdleReq]
  /\ UNCHANGED <<wallet_balance, wallet_transactions, orders, order_items,
                 order_history, payments, menu, order_queue, order_numbers>>

\* ------------------------------------------------------- specifications
PlaceOrderStep ==
  \E u \in Users, lines \in [MenuItems -> 0..MaxQty] : PlaceOrder(u, lines)

ValidateOrderStep == \E o \in 1..MaxOrders : ValidateOrder(o)

CancelOrderStep == \E o \in 1..MaxOrders : CancelOrder(o)

UpdateStatusStep == \E o \in 1..MaxOrders, s \in OrderStatuses : UpdateStatus(o, s)

ProcessPaymentBeginStep ==
  \E r \in Req, u \in Users, o \in 1..MaxOrders, m \in PaymentMethods :
    ProcessPaymentBegin(r, u, o, m)

ProcessPaymentCommitStep ==
  \E r \in Req, resp \in {"none", "accepted", "rejected"} : ProcessPaymentCommit(r, resp)

MtnWebhookStep ==
  \E r \in Req, ref \in 0..MaxPayments, s \in ProviderStatuses : mtn_webhook(r, ref, s)

OrangeWebhookStep ==
  \E r \in Req, ref \in 0..MaxPayments, s \in ProviderStatuses : orange_webhook(r, ref, s)

PaymentVerificationStep ==
  \E r \in Req, p \in 1..MaxPayments, s \in ProviderStatuses : payment_verification(r, p, s)

ApplyProviderStatusStep == \E r \in Req : ApplyProviderStatus(r)

\* No request is between its load step and its write step.
Quiescent == \A r \in Req : req[r].pc = "idle"

\* Orders of one unit per menu item.
PlaceUnitOrderStep ==
  \E u \in Users, lines \in [MenuItems -> 0..1] : PlaceOrder(u, lines)

\* Order lifecycle with the payment of orders, one request at a time: a
\* request starts when no other request is in flight.
SeqPlaceOrder == Quiescent /\ PlaceUnitOrderStep

SeqValidateOrder == Quiescent /\ ValidateOrderStep

SeqCancelOrder == Quiescent /\ CancelOrderStep

SeqUpdateStatus == Quiescent /\ UpdateStatusStep

SeqProcessPaymentBegin == Quiescent /\ ProcessPaymentBeginStep

Next ==
  \/ SeqPlaceOrder
  \/ SeqValidateOrder
  \/ SeqCancelOrder
  \/ SeqUpdateStatus
  \/ SeqProcessPaymentBegin
  \/ ProcessPaymentCommitStep

Spec == Init /\ [][Next]_vars

\* Wallet and payments with concurrent requests: orders are placed and paid
\* from the wallet, wallets are topped up through MTN, the providers report
\* through webhooks and polls.
WalletPaymentBeginStep ==
  \E r \in Req, u \in Users, o \in 1..MaxOrders : ProcessPaymentBegin(r, u, o, "wallet")

MtnTopupStep ==
  \E u \in Users, a \in 1..MaxTopup, resp \in {"accepted", "rejected"} :
    ProcessTopup(u, a, "mtn_momo", resp)

SimulatedTopupStep == \E u \in Users, a \in 1..MaxTopup : process_topup(u, a)

NextWallet ==
  \/ PlaceUnitOrderStep
  \/ WalletPaymentBeginStep
  \/ ProcessPaymentCommitStep
  \/ MtnTopupStep
  \/ SimulatedTopupStep
  \/ MtnWebhookStep
  \/ OrangeWebhookStep
  \/ PaymentVerificationStep
  \/ ApplyProviderStatusStep

SpecWallet == Init /\ [][NextWallet]_vars

\* Wallet payments of placed orders, one request at a time.
NextPay ==
  \/ Quiescent /\ PlaceOrderStep
  \/ Quiescent /\ WalletPaymentBeginStep
  \/ ProcessPaymentCommitStep
  \/ SeqCancelOrder
  \/ SeqValidateOrder
  \/ Quiescent /\ SimulatedTopupStep

SpecPay == Init /\ [][NextPay]_vars

\* Mobile-money payments of placed orders: initiation, the providers'
\* webhooks, refunds.
MobilePaymentBeginStep ==
  \E r \in Req, u \in Users, o \in 1..MaxOrders, m \in {"mtn_momo", "orange_money"} :
    ProcessPaymentBegin(r, u, o, m)

RefundPaymentStep == \E ref \in 1..MaxPayments : refund_payment(ref)

NextMobile ==
  \/ Quiescent /\ PlaceUnitOrderStep
  \/ Quiescent /\ MobilePaymentBeginStep
  \/ ProcessPaymentCommitStep
  \/ MtnWebhookStep
  \/ OrangeWebhookStep
  \/ ApplyProviderStatusStep
  \/ RefundPaymentStep

SpecMobile == Init /\ [][NextMobile]_vars

\* Mobile-money initiation step by step, with webhooks that arrive before
\* the initiating request has committed and are delivered once.  The server
\* finishes the requests it has started; nothing obliges a client to poll.
ProcessPaymentSendStep == \E r \in Req : ProcessPaymentSend(r)

ProcessPaymentTimeoutStep == \E r \in Req : ProcessPaymentCommit(r, "timeout")

WebhookUnknownStep ==
  \E r \in Req, provider \in {"mtn", "orange"}, ref \in 1..MaxPayments,
     s \in ProviderStatuses : WebhookUnknown(r, provider, ref, s)

WebhookReturnStep == \E r \in Req : WebhookReturn(r)

NextEarly ==
  \/ Quiescent /\ PlaceUnitOrderStep
  \/ Quiescent /\ MobilePaymentBeginStep
  \/ ProcessPaymentSendStep
  \/ ProcessPaymentCommitStep
  \/ ProcessPaymentTimeoutStep
  \/ WebhookUnknownStep
  \/ WebhookReturnStep
  \/ PaymentVerificationStep
  \/ ApplyProviderStatusStep

SpecEarly == Init /\ [][NextEarly]_vars

\* Webhook deliveries one request at a time.
NextUnknown ==
  \/ Quiescent /\ PlaceUnitOrderStep
  \/ Quiescent /\ MobilePaymentBeginStep
  \/ ProcessPaymentCommitStep
  \/ Quiescent /\ MtnWebhookStep
  \/ Quiescent /\ OrangeWebhookStep
  \/ Quiescent /\ WebhookUnknownStep
  \/ WebhookReturnStep
  \/ ApplyProviderStatusStep

SpecUnknown == Init /\ [][NextUnknown]_vars

SpecEarlyLive ==
  /\ SpecEarly
  /\ WF_vars(ProcessPaymentSendStep)
  /\ WF_vars(ProcessPaymentCommitStep)
  /\ WF_vars(WebhookReturnStep)
  /\ WF_vars(ApplyProviderStatusStep)

\* Wallet payments and top-ups in which a write of the ledger row or of
\* the status notification can fail.
ProcessPaymentLedgerFailsStep == \E r \in Req : ProcessPaymentLedgerFails(r)

ProcessPaymentNotificationFailsStep == \E r \in Req : ProcessPaymentNotificationFails(r)

ProcessPaymentReturnStep == \E r \in Req : ProcessPaymentReturn(r)

CompleteTopupLedgerFailsStep == \E r \in Req : CompleteTopupLedgerFails(r)

NextFault ==
  \/ Quiescent /\ PlaceUnitOrderStep
  \/ Quiescent /\ WalletPaymentBeginStep
  \/ ProcessPaymentCommitStep
  \/ ProcessPaymentLedgerFailsStep
  \/ ProcessPaymentNotificationFailsStep
  \/ ProcessPaymentReturnStep
  \/ Quiescent /\ MtnTopupStep
  \/ Quiescent /\ PaymentVerificationStep
  \/ ApplyProviderStatusStep
  \/ CompleteTopupLedgerFailsStep

SpecFault == Init /\ [][NextFault]_vars

\* The order queue.
OrderQueueCreateStep == \E position \in 0..MaxQueue : OrderQueueCreate(position)

OrderQueueLoadStep == \E r \in Req, e \in 1..MaxQueue : OrderQueueLoad(r, e)

MoveUpStep == \E r \in Req : move_up(r)

MoveDownStep == \E r \in Req : move_down(r)

NextQueue ==
  \/ Quiescent /\ OrderQueueCreateStep
  \/ OrderQueueLoadStep
  \/ MoveUpStep
  \/ MoveDownStep

SpecQueue == Init /\ [][NextQueue]_vars

\* The numbering of the orders of one day.
OrderSaveGenerateStep == \E r \in Req : OrderSaveGenerate(r)

OrderSaveInsertStep == \E r \in Req : OrderSaveInsert(r)

OrderSaveReturnStep == \E r \in Req : OrderSaveReturn(r)

NextNumber ==
  \/ OrderSaveGenerateStep
  \/ OrderSaveInsertStep
  \/ OrderSaveReturnStep

SpecNumber == Init /\ [][NextNumber]_vars

\* Order building: orders and items are created, items are saved again, menu
\* prices change.
AddToCartStep == \E u \in Users, m \in MenuItems : add_to_cart(u, m)

QuickOrderStep == \E u \in Users, m \in MenuItems : quick_order(u, m)

OrderItemResaveStep == \E i \in 1..MaxItems : OrderItemResave(i)

UpdateMenuItemStep == \E m \in MenuItems, price \in 0..MaxPrice : update_menu_item(m, price)

NextCart ==
  \/ PlaceOrderStep
  \/ AddToCartStep
  \/ QuickOrderStep
  \/ OrderItemResaveStep
  \/ UpdateMenuItemStep

SpecCart == Init /\ [][NextCart]_vars

\* Stock reservation: concurrent callers of MenuItem.update_stock.
ReserveLoadStep ==
  \E r \in Req, m \in MenuItems, quantity \in 1..MaxQty : ReserveLoad(r, m, quantity)

UpdateStockStep == \E r \in Req : update_stock(r)

ReserveReturnStep == \E r \in Req : ReserveReturn(r)

NextStock ==
  \/ ReserveLoadStep
  \/ UpdateStockStep
  \/ ReserveReturnStep

SpecStock == Init /\ [][NextStock]_vars

\* Order placement statement by statement, next to the admin's validate and
\* cancel requests.
PlaceOrderBeginStep ==
  \E r \in Req, view \in {"place_order", "process_order_from_cart"},
     u \in Users, lines \in PostedLines : PlaceOrderBegin(r, view, u, lines)

PlaceOrderLineStep == \E r \in Req : PlaceOrderLine(r)

PlaceOrderFinishStep == \E r \in Req : PlaceOrderFinish(r)

PlaceOrderReturnStep == \E r \in Req : PlaceOrderReturn(r)

NextPlace ==
  \/ PlaceOrderBeginStep
  \/ PlaceOrderLineStep
  \/ PlaceOrderFinishStep
  \/ PlaceOrderReturnStep
  \/ ValidateOrderStep
  \/ CancelOrderStep

SpecPlace == Init /\ [][NextPlace]_vars

\* ================================================================ claims
\* The transition table of the order state machine.
AllowedTo(from) ==
  CASE from = "pending" -> {"validated", "cancelled"}
    [] from = "validated" -> {"paid", "confirmed", "cancelled"}
    [] from = "confirmed" -> {"preparing", "cancelled"}
    [] from = "preparing" -> {"ready", "cancelled"}
    [] from = "ready" -> {"completed"}
    [] from = "paid" -> {"completed", "cancelled"}
    [] OTHER -> {}

\* C1: every change of an order's status follows the transition table; a
\* move the table does not allow leaves the status unchanged.
C1_StatusFollowsTable ==
  [][\A o \in 1..Len(orders) :
       orders'[o].status # orders[o].status
         => orders'[o].status \in AllowedTo(orders[o].status)]_vars

\* Sum of the amounts of the user's wallet transactions of one type.
RECURSIVE LedgerSum(_, _, _)
LedgerSum(txs, u, type) ==
  IF txs = <<>> THEN 0
  ELSE (IF Head(txs).user = u /\ Head(txs).transaction_type = type
        THEN Head(txs).amount ELSE 0) + LedgerSum(Tail(txs), u, type)

\* C2: every user's balance is the initial balance plus the credits minus
\* the debits of the user's wallet transactions.
C2_BalanceMatchesLedger ==
  \A u \in Users :
    wallet_balance[u] = InitialBalance + LedgerSum(wallet_transactions, u, "credit")
                                       - LedgerSum(wallet_transactions, u, "debit")

\* The credit rows written for payment p.
CreditsOf(p) ==
  {i \in 1..Len(wallet_transactions) :
     /\ wallet_transactions[i].payment = p
     /\ wallet_transactions[i].transaction_type = "credit"}

\* C4: a top-up payment is credited to the wallet at most once, however
\* often its provider status is applied.
C4_TopupCreditedOnce ==
  \A p \in 1..Len(payments) :
    payments[p].payment_type = "topup" => Cardinality(CreditsOf(p)) <= 1

\* C5: a Payment that is completed, failed or cancelled keeps its status
\* (a completed one may only be refunded).
C5_PaymentNeverMovesBack ==
  [][\A p \in 1..Len(payments) :
       payments[p].status \in {"completed", "failed", "cancelled"}
         => \/ payments'[p].status = payments[p].status
            \/ payments[p].status = "completed" /\ payments'[p].status = "refunded"]_vars

\* C6: no wallet balance is ever negative.
C6_BalanceNonNegative == \A u \in Users : wallet_balance[u] >= 0

\* C6 witness: two wallet payments of one user were both debited from the
\* same loaded balance, which does not cover the two amounts together.
C6_ConcurrentDebits ==
  \E i, j \in 1..Len(wallet_transactions) :
    /\ i < j
    /\ wallet_transactions[i].transaction_type = "debit"
    /\ wallet_transactions[j].transaction_type = "debit"
    /\ wallet_transactions[i].user = wallet_transactions[j].user
    /\ wallet_transactions[i].balance_before = wallet_transactions[j].balance_before
    /\ wallet_transactions[i].amount + wallet_transactions[j].amount
         > wallet_transactions[i].balance_before
    /\ Quiescent

\* The Payments of order o that are pending, processing or completed.
ActivePayments(o) ==
  {p \in 1..Len(payments) :
     /\ payments[p].order = o
     /\ payments[p].status \in {"pending", "processing", "completed"}}

\* C7: an order has at most one Payment that is pending, processing or
\* completed.
C7_OneActivePayment ==
  \A o \in 1..Len(orders) : Cardinality(ActivePayments(o)) <= 1

\* C8: every Payment of an order belongs to an order that a canteen admin
\* has validated (its history holds the move to validated).
C8_PaymentOnlyForValidated ==
  \A p \in 1..Len(payments) :
    payments[p].order # 0
      => \E h \in 1..Len(order_history) :
           /\ order_history[h].order = payments[p].order
           /\ order_history[h].status_to = "validated"

\* The requests that finished a reservation of quantity 1 of item m for
\* which they had loaded the stock 1.
LastUnitAttempts(m) ==
  {r \in Req : /\ req[r].pc = "reserved" /\ req[r].item = m
               /\ req[r].quantity = 1 /\ req[r].stock = 1}

\* C3: of two reservation attempts for quantity 1 that both read the stock
\* 1, exactly one succeeds and the other is refused; the stock ends at 0 and
\* is never below 0.
C3_LastUnitReservedOnce ==
  /\ \A m \in MenuItems : menu[m].current_stock >= 0
  /\ \A m \in MenuItems :
       Cardinality(LastUnitAttempts(m)) = 2
         => /\ Cardinality({r \in LastUnitAttempts(m) : req[r].result = "ok"}) = 1
            /\ Cardinality({r \in LastUnitAttempts(m) : req[r].result = "refused"}) = 1
            /\ menu[m].current_stock = 0

\* C9: every order's total_amount is the sum of quantity x unit_price over
\* its items, plus tax (there is no service fee field), minus the discount.
C9_TotalMatchesItems ==
  \A o \in 1..Len(orders) :
    orders[o].total_amount =
      SumSeq(MapItems(order_items, o)) + orders[o].tax_amount - orders[o].discount_amount

\* C10: the unit_price of an existing OrderItem never changes.
C10_UnitPriceFixed ==
  [][\A i \in 1..Len(order_items) :
       order_items'[i].unit_price = order_items[i].unit_price]_vars

\* C11: a placement that failed on one of its lines leaves nothing behind:
\* no Order row and no OrderItem row of that request is persisted.
C11_FailedPlacementLeavesNothing ==
  \A r \in Req :
    (req[r].pc = "place_done" /\ req[r].result = "not_found")
      => /\ orders[req[r].order] = NoOrder
         /\ \A i \in 1..Len(order_items) : order_items[i].order # req[r].order

\* The wallet payment request r returns in this step.
WalletPaymentReturns(r) ==
  req[r].pc = "pay" /\ req[r].method = "wallet" /\ req'[r].pc = "idle"

C13_InsufficientBalanceRejected ==
  [][\A r \in Req :
       (WalletPaymentReturns(r) /\ req[r].balance < req[r].order_rec.total_amount)
         => /\ wallet_balance' = wallet_balance
            /\ wallet_transactions' = wallet_transactions
            /\ orders' = orders
            /\ menu' = menu
            /\ payments'[Len(payments')].status = "failed"]_vars

\* C13 witness: a wallet payment failed for insufficient balance and its
\* order is still pending.
C13_PaymentRefused ==
  \E p \in 1..Len(payments) :
    /\ payments[p].payment_method = "wallet" /\ payments[p].status = "failed"
    /\ payments[p].failure_reason = "Insufficient wallet balance"
    /\ payments[p].amount > wallet_balance[payments[p].user]
    /\ orders[payments[p].order].status = "pending"
    /\ wallet_transactions = <<>>

\* The quantity of menu item m that the items of order o hold.
RECURSIVE QtyOf(_, _, _)
QtyOf(items, o, m) ==
  IF items = <<>> THEN 0
  ELSE (IF Head(items).order = o /\ Head(items).menu_item = m
        THEN Head(items).quantity ELSE 0) + QtyOf(Tail(items), o, m)

\* Order o has a completed Payment.
HasCompletedPayment(o) ==
  \E p \in 1..Len(payments) : payments[p].order = o /\ payments[p].status = "completed"

\* C14: a step that cancels an order with a completed payment restocks every
\* item of the order by its ordered quantity, adds exactly one refund credit
\* WalletTransaction of the order's total_amount and exactly one OrderHistory
\* row for the change.
C14_CancelPaidOrderRefunds ==
  [][\A o \in 1..Len(orders) :
       (orders[o].status # "cancelled" /\ orders'[o].status = "cancelled"
          /\ HasCompletedPayment(o))
         => /\ \A m \in MenuItems :
                 menu'[m].current_stock =
                   menu[m].current_stock + QtyOf(order_items, o, m)
            /\ Len(wallet_transactions') = Len(wallet_transactions) + 1
            /\ LET tx == wallet_transactions'[Len(wallet_transactions')]
               IN /\ tx.transaction_type = "credit" /\ tx.source = "refund"
                  /\ tx.amount = orders[o].total_amount /\ tx.order = o
            /\ order_history' =
                 Append(order_history, [order |-> o, status_from |-> orders[o].status,
                                        status_to |-> "cancelled"])]_vars

\* C17: every step that changes an order's status appends exactly one
\* OrderHistory row holding the order, the old and the new status.
C17_StatusChangeHasHistoryRow ==
  [][\A o \in 1..Len(orders) :
       orders'[o].status # orders[o].status
         => order_history' =
              Append(order_history, [order |-> o, status_from |-> orders[o].status,
                                     status_to |-> orders'[o].status])]_vars

\* C18: the step that places an order lowers the current_stock of every menu
\* item by the quantity the new order holds of it, and the new order holds
\* no more of an item than was in stock.
C18_PlacementReservesStock ==
  [][Len(orders') = Len(orders) + 1
       => \A m \in MenuItems :
            /\ QtyOf(order_items', Len(orders'), m) <= menu[m].current_stock
            /\ menu'[m].current_stock =
                 menu[m].current_stock - QtyOf(order_items', Len(orders'), m)]_vars

\* C15: a mobile-money payment request advances its order only when the
\* order then has a completed Payment, that is, not before the provider's
\* successful status has been applied.
C15_AdvancedOnlyWhenCompleted ==
  [][\A r \in Req :
       LET o == req[r].order
       IN (req[r].pc = "pay" /\ req[r].method \in {"mtn_momo", "orange_money"}
             /\ req'[r].pc = "idle" /\ orders'[o].status # orders[o].status)
            => \E p \in 1..Len(payments') :
                 payments'[p].order = o /\ payments'[p].status = "completed"]_vars

\* C20: the step that refunds a completed Payment raises the user's wallet
\* balance by the payment amount and adds exactly one credit
\* WalletTransaction with source refund for the payment's order.
C20_RefundCreditsWallet ==
  [][\A p \in 1..Len(payments) :
       (payments[p].status = "completed" /\ payments'[p].status = "refunded")
         => /\ wallet_balance'[payments[p].user] =
                 wallet_balance[payments[p].user] + payments[p].amount
            /\ Len(wallet_transactions') = Len(wallet_transactions) + 1
            /\ LET tx == wallet_transactions'[Len(wallet_transactions')]
               IN /\ tx.transaction_type = "credit" /\ tx.source = "refund"
                  /\ tx.amount = payments[p].amount
                  /\ tx.order = payments[p].order]_vars

\* C16: no order that a placement request is still building is validated or
\* cancelled: the admin's requests never see a half-built order.
C16_HalfBuiltOrderNotSeen ==
  [][\A o \in 1..Len(orders) :
       (orders[o].status = "pending" /\ orders'[o].status \in {"validated", "cancelled"})
         => ~\E r \in Req : req[r].pc = "items" /\ req[r].order = o]_vars

\* C19: cancel_order accepts an order in status validated (there is room for
\* its history row).
C19_ValidatedCanBeCancelled ==
  \A o \in 1..Len(orders) :
    (orders[o].status = "validated" /\ Len(order_history) < MaxHistory)
      => ENABLED CancelOrder(o)

\* A successful webhook for reference ref was acknowledged as unknown while
\* the request that sent ref to the provider has not committed yet.
EarlyWebhookAcknowledged(ref) ==
  /\ \E r \in Req : /\ req[r].pc = "webhook_done" /\ req[r].payment = ref
                    /\ req[r].status = "complete"
  /\ \E r \in Req : req[r].pc = "sent" /\ req[r].payment = ref

\* C21: a successful webhook that arrives before the initiating request has
\* committed is not lost: the Payment with that reference becomes completed
\* without another delivery.
C21_EarlyWebhookNotLost ==
  \A ref \in 1..MaxPayments :
    EarlyWebhookAcknowledged(ref)
      ~> (\E p \in 1..Len(payments) :
            payments[p].transaction_id = ref /\ payments[p].status = "completed")

\* C23: a Payment whose initiation timed out is left processing with
\* retry_count 0.
C23_TimeoutLeavesProcessing ==
  \A p \in 1..Len(payments) :
    payments[p].failure_reason = "timeout"
      => payments[p].status = "processing" /\ payments[p].retry_count = 0

C26_TerminalMarkIdempotent ==
  [][\A p \in 1..Len(payments) :
       /\ (payments[p].status = "failed" /\ payments'[p].status = "failed")
            => /\ payments'[p].retry_count = payments[p].retry_count
               /\ payments'[p].failure_reason = payments[p].failure_reason
       /\ (payments[p].status = "completed" /\ payments'[p].status = "completed")
            => payments'[p].transaction_id = payments[p].transaction_id]_vars

\* C27: a Payment that has failed three times cannot be retried, and no later
\* step makes it retryable again.
C27_RetryLimitIsFinal ==
  [][\A p \in 1..Len(payments) :
       payments[p].retry_count >= 3
         => ~can_retry(payments[p]) /\ ~can_retry(payments'[p])]_vars

\* C30: in every state the timestamp of an order's current status is set:
\* confirmed_at when confirmed, ready_at when ready, completed_at when
\* completed, cancelled_at when cancelled.
C30_CurrentStatusStamped ==
  \A o \in 1..Len(orders) :
    /\ orders[o].status = "confirmed" => orders[o].confirmed_at
    /\ orders[o].status = "ready" => orders[o].ready_at
    /\ orders[o].status = "completed" => orders[o].completed_at
    /\ orders[o].status = "cancelled" => orders[o].cancelled_at

\* C22: a wallet operation whose ledger row cannot be written is undone as
\* a whole: no step changes a wallet balance without adding its
\* WalletTransaction row.
C22_NoBalanceChangeWithoutLedgerRow ==
  [][wallet_balance' # wallet_balance
       => Len(wallet_transactions') = Len(wallet_transactions) + 1]_vars

\* C25: when the status notification of a successful wallet payment fails,
\* the completed Payment, the debit with its ledger row and the confirmed
\* order are committed all the same.
C25_NotificationFailureKeepsPayment ==
  \A r \in Req :
    (req[r].pc = "pay_done" /\ req[r].result = "notification_failed"
       /\ req[r].method = "wallet")
      => /\ orders[req[r].order].status = "confirmed"
         /\ \E p \in 1..Len(payments) :
              /\ payments[p].order = req[r].order
              /\ payments[p].status = "completed"
              /\ \E t \in 1..Len(wallet_transactions) :
                   /\ wallet_transactions[t].payment = p
                   /\ wallet_transactions[t].transaction_type = "debit"

\* C28: the queue positions always form the dense sequence 1..n, with no gap
\* and no duplicate.
C28_QueuePositionsDense ==
  /\ {order_queue[i].queue_position : i \in 1..Len(order_queue)} = 1..Len(order_queue)
  /\ \A i, j \in 1..Len(order_queue) :
       i # j => order_queue[i].queue_position # order_queue[j].queue_position

\* C29: every order that is saved gets an order number that no other order
\* of the day has: the stored numbers differ and no save is refused because
\* its number is taken.
C29_OrderNumbersDiffer ==
  /\ \A i, j \in 1..Len(order_numbers) : i # j => order_numbers[i] # order_numbers[j]
  /\ \A r \in Req : req[r].result # "IntegrityError"

====
